---- MODULE Spec2Model ----
(***************************************************************************)
(* State-machine model of the DRUIDS query backend:                        *)
(*   - the session cache of getChatEngine (chatEngines, lastActivityTimes, *)
(*     the setTimeout eviction checks),                                    *)
(*   - the MCPClient singleton (client, transport, isConnected) with its   *)
(*     connect / disconnect / remote operations,                           *)
(*   - the two llamaindex tool adapters ListComponentsTool and             *)
(*     GetComponentPropsTool, and the tool server they reach,              *)
(*   - the request handlers POST /query and POST /stream-query.            *)
(* Every async function is split at its awaits: one action for the         *)
(* synchronous part up to the await, one action per way the awaited        *)
(* promise settles.  Time is Date.now() in milliseconds.                   *)
(***************************************************************************)
EXTENDS Integers, Sequences, FiniteSets, TLC

\* ---------------------------------------------------------------- bounds
NumUsers == 2
NumTasks == 2
MaxCalls == 2
MaxOps == 2
MaxConn == 3
MaxTicks == 3

\* ------------------------------------------------------ program constants
IDLE_MS == 10 * 60 * 1000
CHECK_MS == 5 * 60 * 1000

\* granularity of the modelled clock: the delay of an eviction check
Step == CHECK_MS
\* Date.now() when the server starts to listen: later than IDLE_MS after the epoch
StartTime == IDLE_MS
MaxTime == StartTime + MaxTicks * Step

UserIds == 1..NumUsers
Tasks == 1..NumTasks
Null == 0

RetrievalTool == "druids_query_engine"
ListTool == "list_druids_components"
PropsTool == "get_component_props"

VARIABLES
    now,                \* Date.now()
    startup,            \* "building" | "listening" | "crashed"
    queryEngineTool,    \* Null or the id of the QueryEngineTool instance
    builds,             \* number of completed initializeEngine() runs
    chatEngines,        \* Map<string, OpenAIAgent>
    lastActivityTimes,  \* Map<string, number>
    timers,             \* pending setTimeout callbacks
    mcpClient,          \* the MCPClient singleton: client, transport, isConnected
    clients,            \* state of each sdk Client instance still referenced
    task,               \* the async invocation each task slot is running; conn and req
                        \* count (history) the connect() calls and remote requests it
                        \* made, prev is (history, for disconnect) the invocation that
                        \* had ended last when it was called
    ret,                \* history: how the invocation that ended last ended
    ncalls,             \* invocations started so far (they number the objects created)
    handed,             \* history: agents returned per user since its last eviction
    lastAccess          \* history: the last completed getChatEngine per user

vars == <<now, startup, queryEngineTool, builds, chatEngines, lastActivityTimes,
          timers, mcpClient, clients, task, ret, ncalls, handed, lastAccess>>

cacheVars == <<chatEngines, lastActivityTimes, timers, handed, lastAccess>>
indexVars == <<startup, queryEngineTool, builds>>
channelVars == <<mcpClient, clients>>

\* ------------------------------------------------------------ Map helpers
MapSet(m, k, v) == [x \in DOMAIN m \cup {k} |-> IF x = k THEN v ELSE m[x]]
MapDelete(m, k) == [x \in DOMAIN m \ {k} |-> m[x]]
EmptyMap == [x \in {} |-> Null]

\* the request handler an invocation runs for: none, or the handler with the
\* fragments of the agent's answer, how many it has written, and the bytes on
\* the wire
NoHttp == [handler |-> "none", frags |-> <<>>, sent |-> 0, wire |-> <<>>]

Idle == [id |-> 0, op |-> "none", pc |-> "idle", user |-> Null, cl |-> Null, names |-> <<>>,
         conn |-> 0, req |-> 0, http |-> NoHttp, prev |-> 0]
NoRet == [id |-> 0, op |-> "none", outcome |-> "none"]
NoAccess == [at |-> -1, call |-> 0]

\* a new invocation takes the first slot that runs nothing
Free(t) == task[t].op = "none" /\ \A s \in 1..(t - 1) : task[s].op # "none"

\* -------------------------------------------------------------- MCPClient
isReady(m) == m.isConnected

\* connect(), synchronous part: a new transport and a new Client are stored
connectBegin(m, id) == [m EXCEPT !.transport = id, !.client = id]

\* connect(), after the awaited handshake resolved
connectDone(m) == [m EXCEPT !.isConnected = TRUE]

\* variant: the caller connects whatever isReady() says
NeedsConnect_always(m) == TRUE

\* if (!mcpClient.isReady()) await mcpClient.connect(): the test the adapters
\* and getChatEngine make before they call connect()
NeedsConnect(m) == ~isReady(m)

\* the guard of disconnect(): it goes on only when connected and holding a client
disconnectGuard(m) == m.isConnected /\ m.client # Null

\* disconnect(), after the awaited close() resolved
disconnectDone(m) == [m EXCEPT !.transport = Null, !.client = Null, !.isConnected = FALSE]

\* disconnect(), after the awaited close() rejected: the catch only logs
disconnectFailed(m) == m

\* variant: the guard tests only that a client is held
callGuard_clientOnly(m) == m.client # Null

\* the guard of listAvailableComponents / getComponentProps
callGuard(m) == m.isConnected /\ m.client # Null

\* Client instances nobody references any more are dropped from the model
Referenced(m, tk) == ({m.client} \cup {tk[t].cl : t \in Tasks}) \ {Null}
Collect(cs, m, tk) == [c \in (DOMAIN cs \cap Referenced(m, tk)) |-> cs[c]]

\* ---------------------------------------------------------- session cache
CreateMCPTools == {ListTool, PropsTool}

\* new OpenAIAgent({tools: [queryEngineTool, ...mcpTools], ...}); channelReady
\* records (history) whether the channel was connected when the agent was built
NewAgent(id, qet, ready) ==
    [id |-> id, index |-> qet, tools |-> {RetrievalTool} \cup CreateMCPTools,
     channelReady |-> ready]

\* lastActivityTimes.get(userId) || 0
LastOrZero(lat, u) == IF u \in DOMAIN lat THEN lat[u] ELSE 0

\* variant: the check compares against the delay of the timer
EvictionDue_delay(t, last) == t - last >= CHECK_MS

\* Date.now() - (lastActivityTime || 0) >= 10 * 60 * 1000
EvictionDue(t, last) == t - last >= IDLE_MS

\* variant: the timer is scheduled without a delay
NewTimer_nodelay(id, u, t) == [id |-> id, userId |-> u, due |-> t]

\* the timer getChatEngine schedules
NewTimer(id, u, t) == [id |-> id, userId |-> u, due |-> t + CHECK_MS]

\* variant: the catch rethrows
OnConnectError_rethrow == "rethrow"

\* how getChatEngine treats a rejected mcpClient.connect(): the catch only warns
OnConnectError == "continue"

Init ==
    /\ now = StartTime
    /\ startup = "building"
    /\ queryEngineTool = Null
    /\ builds = 0
    /\ chatEngines = EmptyMap
    /\ lastActivityTimes = EmptyMap
    /\ timers = {}
    /\ mcpClient = [client |-> Null, transport |-> Null, isConnected |-> FALSE]
    /\ clients = EmptyMap
    /\ task = [t \in Tasks |-> Idle]
    /\ ret = NoRet
    /\ ncalls = 0
    /\ handed = [u \in UserIds |-> {}]
    /\ lastAccess = [u \in UserIds |-> NoAccess]

\* lines 103-115 of getChatEngine: refresh, schedule the check, return the agent
GetChatEngineTail(t, id, u, engines) ==
    /\ chatEngines' = engines
    /\ lastActivityTimes' = MapSet(lastActivityTimes, u, now)
    /\ timers' = timers \cup {NewTimer(id, u, now)}
    /\ ret' = [id |-> id, op |-> "getChatEngine", outcome |-> "returned",
             user |-> u, agent |-> engines[u].id,
             connects |-> task[t].conn]
    /\ handed' = [handed EXCEPT ![u] = @ \cup {engines[u].id}]
    /\ lastAccess' = [lastAccess EXCEPT ![u] = [at |-> now, call |-> id]]

\* getChatEngine throws: nothing of the cache is touched
GetChatEngineThrow(t, id, u, why) ==
    /\ ret' = [id |-> id, op |-> "getChatEngine", outcome |-> "threw",
             user |-> u, error |-> why, connects |-> task[t].conn]
    /\ UNCHANGED cacheVars

\* where an invocation goes on once getChatEngine has returned: a direct call
\* is over, queryIndex / streamQueryIndex await chatEngine.chat(...) next
AfterGetChatEngine(id, u, h) ==
    IF h.handler = "none" THEN Idle
    ELSE [Idle EXCEPT !.id = id, !.op = h.handler, !.pc = "awaitChat", !.user = u, !.http = h]

\* where it goes on once getChatEngine has thrown: the catch of the handler
AfterThrow(id, u, h) ==
    IF h.handler = "none" THEN Idle
    ELSE [Idle EXCEPT !.id = id, !.op = h.handler, !.pc = "catch", !.user = u, !.http = h]

\* lines 55-115 of getChatEngine, entered with queryEngineTool = qet
GetChatEngineMiss(t, id, u, qet, h) ==
    IF ~NeedsConnect(mcpClient)
    THEN /\ GetChatEngineTail(t, id, u, MapSet(chatEngines, u, NewAgent(id, qet, TRUE)))
         /\ task' = [task EXCEPT ![t] = AfterGetChatEngine(id, u, h)]
         /\ clients' = Collect(clients, mcpClient, task')
         /\ UNCHANGED mcpClient
    ELSE /\ mcpClient' = connectBegin(mcpClient, id)
         /\ task' = [task EXCEPT ![t] = [id |-> id, op |-> "getChatEngine", pc |-> "awaitConnect",
                                         user |-> u, cl |-> id, names |-> <<>>,
                                         conn |-> 1, req |-> 0, http |-> h, prev |-> 0]]
         /\ clients' = Collect(MapSet(clients, id, "handshaking"), mcpClient', task')
         /\ UNCHANGED <<cacheVars, ret>>

\* variant: a hit evaluates the tools of the cached agent anew
CachedAgent_refresh(agent, ready) ==
    [agent EXCEPT !.tools = IF ready THEN {RetrievalTool} \cup CreateMCPTools
                                     ELSE {RetrievalTool}]

\* chatEngines.get(userId)! on a hit: the cached agent as it is
CachedAgent(agent, ready) == agent

\* variant: app.listen is called without waiting for the build
Listening_atOnce == startup \in {"building", "listening"}

\* requests are served: app.listen was called, in the then() of the startup build
Listening == startup = "listening"

\* getChatEngine(userId) up to its first await or its return, called for h
GetChatEngineCalled(t, u, h) ==
    /\ Listening
    /\ Free(t)
    /\ ncalls < MaxCalls
    /\ ncalls' = ncalls + 1
    /\ UNCHANGED <<now, indexVars>>
    /\ IF u \in DOMAIN chatEngines
       THEN /\ GetChatEngineTail(t, ncalls + 1, u,
                                 [chatEngines EXCEPT ![u] = CachedAgent(@, isReady(mcpClient))])
            /\ task' = [task EXCEPT ![t] = AfterGetChatEngine(ncalls + 1, u, h)]
            /\ UNCHANGED channelVars
       ELSE IF queryEngineTool = Null
       THEN /\ task' = [task EXCEPT ![t] = [id |-> ncalls + 1, op |-> "getChatEngine",
                                            pc |-> "awaitInit", user |-> u, cl |-> Null,
                                            names |-> <<>>, conn |-> 0, req |-> 0, http |-> h, prev |-> 0]]
            /\ UNCHANGED <<cacheVars, ret, channelVars>>
       ELSE GetChatEngineMiss(t, ncalls + 1, u, queryEngineTool, h)

\* getChatEngine(userId) called on its own
GetChatEngine(t, u) == GetChatEngineCalled(t, u, NoHttp)

\* the handshake awaited by getChatEngine's mcpClient.connect() succeeded
GetChatEngineConnected(t) ==
    /\ task[t].op = "getChatEngine" /\ task[t].pc = "awaitConnect"
    /\ clients[task[t].cl] = "handshaking"
    /\ mcpClient' = connectDone(mcpClient)
    /\ task' = [task EXCEPT ![t] = AfterGetChatEngine(task[t].id, task[t].user, task[t].http)]
    /\ clients' = Collect([clients EXCEPT ![task[t].cl] = "ready"], mcpClient', task')
    /\ GetChatEngineTail(t, task[t].id, task[t].user,
                         MapSet(chatEngines, task[t].user,
                                NewAgent(task[t].id, queryEngineTool, TRUE)))
    /\ UNCHANGED <<now, indexVars, ncalls>>

\* the handshake awaited by getChatEngine's mcpClient.connect() failed
GetChatEngineConnectFailed(t) ==
    /\ task[t].op = "getChatEngine" /\ task[t].pc = "awaitConnect"
    /\ clients[task[t].cl] \in {"handshaking", "closed"}
    /\ task' = [task EXCEPT ![t] =
                   IF OnConnectError = "continue"
                   THEN AfterGetChatEngine(task[t].id, task[t].user, task[t].http)
                   ELSE AfterThrow(task[t].id, task[t].user, task[t].http)]
    /\ clients' = Collect([clients EXCEPT ![task[t].cl] =
                              IF @ = "handshaking" THEN "failed" ELSE @], mcpClient, task')
    /\ IF OnConnectError = "continue"
       THEN GetChatEngineTail(t, task[t].id, task[t].user,
                              MapSet(chatEngines, task[t].user,
                                     NewAgent(task[t].id, queryEngineTool, FALSE)))
       ELSE GetChatEngineThrow(t, task[t].id, task[t].user, "connect")
    /\ UNCHANGED <<now, indexVars, ncalls, mcpClient>>

\* an initializeEngine() run resolves; owner 0 is the startup call, another
\* owner is the getChatEngine invocation that awaits it
InitializeEngineResolved(owner) ==
    /\ \/ owner = 0 /\ startup = "building"
       \/ owner \in Tasks /\ task[owner].op = "getChatEngine" /\ task[owner].pc = "awaitInit"
    /\ queryEngineTool' = builds + 1
    /\ builds' = builds + 1
    /\ UNCHANGED <<now, ncalls>>
    /\ IF owner = 0
       THEN /\ startup' = "listening"
            /\ UNCHANGED <<cacheVars, channelVars, task, ret>>
       ELSE /\ UNCHANGED startup
            /\ GetChatEngineMiss(owner, task[owner].id, task[owner].user, builds + 1,
                                 task[owner].http)

\* an initializeEngine() run rejects
InitializeEngineRejected(owner) ==
    /\ \/ owner = 0 /\ startup = "building"
       \/ owner \in Tasks /\ task[owner].op = "getChatEngine" /\ task[owner].pc = "awaitInit"
    /\ UNCHANGED <<now, ncalls, queryEngineTool, builds, channelVars>>
    /\ IF owner = 0
       THEN /\ startup' = "crashed"
            /\ UNCHANGED <<cacheVars, task, ret>>
       ELSE /\ UNCHANGED startup
            /\ task' = [task EXCEPT ![owner] =
                           AfterThrow(task[owner].id, task[owner].user, task[owner].http)]
            /\ GetChatEngineThrow(owner, task[owner].id, task[owner].user, "index")

\* variant: the check deletes the agent and keeps the timestamp
EvictTimestamp_keep(lat, u) == lat

\* lastActivityTimes.delete(userId)
EvictTimestamp(lat, u) == MapDelete(lat, u)

\* the setTimeout callback of getChatEngine runs
EvictionCheck(k) ==
    /\ k \in timers
    /\ k.due <= now
    /\ timers' = timers \ {k}
    /\ IF EvictionDue(now, LastOrZero(lastActivityTimes, k.userId))
       THEN /\ chatEngines' = MapDelete(chatEngines, k.userId)
            /\ lastActivityTimes' = EvictTimestamp(lastActivityTimes, k.userId)
            /\ handed' = [handed EXCEPT ![k.userId] = {}]
       ELSE UNCHANGED <<chatEngines, lastActivityTimes, handed>>
    /\ UNCHANGED <<now, indexVars, channelVars, task, ret, ncalls, lastAccess>>

\* time passes while the server listens; a timer may run later than it is due
Tick ==
    /\ startup = "listening"
    /\ now < MaxTime
    /\ now' = now + Step
    /\ UNCHANGED <<indexVars, cacheVars, channelVars, task, ret, ncalls>>

\* time passes only when no timer is due: every timer runs on time
TickOnTime ==
    /\ \A k \in timers : k.due > now
    /\ Tick

NextCache ==
    \/ InitializeEngineResolved(0)
    \/ InitializeEngineRejected(0)
    \/ \E t \in Tasks, u \in UserIds : GetChatEngine(t, u)
    \/ \E t \in Tasks : GetChatEngineConnected(t)
    \/ \E t \in Tasks : GetChatEngineConnectFailed(t)
    \/ \E k \in timers : EvictionCheck(k)
    \/ Tick

SpecCache == Init /\ [][NextCache]_vars

\* ------------------------------------------------------- remote tool server
MaxNames == 2
Names == {"Button", "Ghost"}
NoProps == "undefined"

\* an item of the app map: label, props (a list of prop names, or undefined),
\* and whether its destination contains '/components/'
Item(label, props, comp) == [label |-> label, props |-> props, component |-> comp]

\* the app maps the server may fetch
AppMaps ==
    { <<>>,
      <<Item("Button", <<"size">>, TRUE)>>,
      <<Item("Button", <<"size">>, TRUE), Item("Ghost", NoProps, FALSE)>>,
      <<Item("Ghost", <<>>, TRUE), Item("Button", <<"size", "kind">>, TRUE)>> }

\* the record 'found' after the loop over componentMap: a later item with the
\* same label overwrites an earlier one
RECURSIVE FoundProps(_, _, _)
FoundProps(appMap, nameSet, name) ==
    IF appMap = <<>> THEN NoProps
    ELSE LET last == appMap[Len(appMap)]
         IN IF last.label = name /\ name \in nameSet
            THEN last.props
            ELSE FoundProps(SubSeq(appMap, 1, Len(appMap) - 1), nameSet, name)

\* getDruidsComponentProps(names) on the server, given the fetched app map
getDruidsComponentProps(names, appMap) ==
    IF Len(names) = 0 THEN <<>>
    ELSE LET nameSet == {names[i] : i \in 1..Len(names)}
         IN [i \in 1..Len(names) |->
               LET props == FoundProps(appMap, nameSet, names[i])
               IN IF props = NoProps
                  THEN [name |-> names[i], notFound |-> TRUE]
                  ELSE [name |-> names[i], props |-> props]]

\* listAvailableDruidsComponents() on the server: one entry per component
RECURSIVE listAvailableDruidsComponents(_)
listAvailableDruidsComponents(appMap) ==
    IF appMap = <<>> THEN <<>>
    ELSE (IF appMap[1].component THEN <<[name |-> appMap[1].label]>> ELSE <<>>)
         \o listAvailableDruidsComponents(Tail(appMap))

\* JSON.stringify of one entry of a tool result: its fields in order
JSONstringifyEntry(e) ==
    IF "notFound" \in DOMAIN e THEN <<"name", e.name, "notFound", e.notFound>>
    ELSE IF "props" \in DOMAIN e THEN <<"name", e.name, "props", e.props>>
    ELSE <<"name", e.name>>

\* JSON.stringify(result, null, 2) of a tool result (an array of entries)
JSONstringify(result) == [i \in 1..Len(result) |-> JSONstringifyEntry(result[i])]

\* JSON.parse of the text of one entry
JSONparseEntry(tx) ==
    IF Len(tx) = 2 THEN [name |-> tx[2]]
    ELSE IF tx[3] = "notFound" THEN [name |-> tx[2], notFound |-> tx[4]]
    ELSE [name |-> tx[2], props |-> tx[4]]

\* JSON.parse(content.text)
JSONparse(text) == [i \in 1..Len(text) |-> JSONparseEntry(text[i])]

\* comp.notFound of a parsed entry (undefined when the field is absent)
IsNotFound(comp) == "notFound" \in DOMAIN comp /\ comp.notFound

RECURSIVE Filter(_, _)
Filter(s, keepNotFound) ==
    IF s = <<>> THEN <<>>
    ELSE (IF IsNotFound(s[1]) = keepNotFound THEN <<s[1]>> ELSE <<>>)
         \o Filter(Tail(s), keepNotFound)

\* ----------------------------------------------------------- tool adapters
\* the inputs an agent may pass: names missing, not an array, or an array
NameSeqs == UNION {[1..n -> Names] : n \in 0..MaxNames}
Inputs == {[kind |-> "missing", names |-> <<>>], [kind |-> "notArray", names |-> <<>>]}
          \cup {[kind |-> "array", names |-> s] : s \in NameSeqs}

\* variant: the input is not validated
InvalidNames_never(input) == FALSE

\* !input.names || !Array.isArray(input.names) || input.names.length === 0
InvalidNames(input) == input.kind # "array" \/ Len(input.names) = 0

Returned(v) == [outcome |-> "returned", value |-> v]
Threw(e) == [outcome |-> "threw", error |-> e]

\* the success envelope of ListComponentsTool.call
ListSuccess(components) ==
    [success |-> TRUE, components |-> components, total |-> Len(components),
     message |-> "Found available DRUIDS components"]

\* the success envelope of GetComponentPropsTool.call
PropsSuccess(componentProps) ==
    LET foundComponents == Filter(componentProps, FALSE)
        notFoundComponents == Filter(componentProps, TRUE)
    IN [success |-> TRUE, components |-> foundComponents,
        notFound |-> [i \in 1..Len(notFoundComponents) |-> notFoundComponents[i].name],
        message |-> "Retrieved props"]

\* the envelope GetComponentPropsTool.call returns for an invalid input
PropsInvalid ==
    [success |-> FALSE, error |-> "Invalid input: names must be a non-empty array",
     message |-> "Please provide component names as an array"]

\* variant: the error leaves the adapter
ToolCatch_rethrow(op, err) == Threw(err)

\* the catch block of either adapter: the error becomes a failure envelope
ToolCatch(op, err) ==
    Returned([success |-> FALSE, error |-> err,
              message |-> IF op = "listTool" THEN "Failed to retrieve component list"
                                             ELSE "Failed to retrieve component props"])

\* the value the adapter builds from the parsed remote result
ToolSuccess(op, payload) ==
    Returned(IF op = "listTool" THEN ListSuccess(payload) ELSE PropsSuccess(payload))

\* what the tool function of the server computes for the call
ServerResult(op, names, appMap) ==
    IF op \in {"listTool", "listAvailableComponents", "list-available-druids-components"}
    THEN listAvailableDruidsComponents(appMap)
    ELSE getDruidsComponentProps(names, appMap)

\* the CallToolRequestSchema handler of the server: the result as one text content
CallToolHandler(op, names, appMap) ==
    [type |-> "text", text |-> JSONstringify(ServerResult(op, names, appMap))]

\* what listAvailableComponents / getComponentProps makes of the response
ParseResponse(content) ==
    IF content.type = "text" THEN JSONparse(content.text) ELSE <<>>

\* the invocation of slot t ends with r; via names the path it took, connects
\* and requests are the connect() calls and remote requests it made
Finish(t, id, op, via, r) ==
    ret' = [id |-> id, op |-> op, via |-> via,
            connects |-> task[t].conn, requests |-> task[t].req] @@ r

\* mcpClient.listAvailableComponents() / getComponentProps(names) up to the
\* awaited callTool, as called by an adapter, with the channel in state m
ToolRemoteBegin(t, id, op, names, m, cs) ==
    IF callGuard(m)
    THEN /\ task' = [task EXCEPT ![t] = [id |-> id, op |-> op, pc |-> "awaitRemote",
                                         user |-> Null, cl |-> m.client, names |-> names,
                                         conn |-> task[t].conn, req |-> task[t].req + 1]]
         /\ clients' = Collect(cs, m, task')
         /\ UNCHANGED ret
    ELSE /\ task' = [task EXCEPT ![t] = Idle]
         /\ clients' = Collect(cs, m, task')
         /\ Finish(t, id, op, "notConnected", ToolCatch(op, "MCP Client not connected"))

\* an adapter's call(): the part up to its first await; an invalid input is
\* recorded (history) with the envelope returned for it
ToolCall(t, op, input) ==
    /\ Free(t)
    /\ ncalls < MaxOps
    /\ ncalls' = ncalls + 1
    /\ UNCHANGED <<now, indexVars, cacheVars>>
    /\ IF op = "propsTool" /\ InvalidNames(input)
       THEN /\ Finish(t, ncalls + 1, op, "invalidInput",
                      [input |-> input] @@ Returned(PropsInvalid))
            /\ UNCHANGED <<task, channelVars>>
       ELSE IF NeedsConnect(mcpClient)
       THEN /\ mcpClient' = connectBegin(mcpClient, ncalls + 1)
            /\ task' = [task EXCEPT ![t] = [id |-> ncalls + 1, op |-> op, pc |-> "awaitConnect",
                                            user |-> Null, cl |-> ncalls + 1,
                                            names |-> input.names,
                                            conn |-> 1, req |-> 0, http |-> NoHttp, prev |-> 0]]
            /\ clients' = Collect(MapSet(clients, ncalls + 1, "handshaking"), mcpClient', task')
            /\ UNCHANGED ret
       ELSE /\ ToolRemoteBegin(t, ncalls + 1, op, input.names, mcpClient, clients)
            /\ UNCHANGED mcpClient

\* ListComponentsTool.call()
ListComponentsToolCall(t) == ToolCall(t, "listTool", [kind |-> "array", names |-> <<>>])

\* GetComponentPropsTool.call(input)
GetComponentPropsToolCall(t, input) == ToolCall(t, "propsTool", input)

IsTool(t) == task[t].op \in {"listTool", "propsTool"}

\* the handshake awaited by the adapter's mcpClient.connect() succeeded
ToolConnected(t) ==
    /\ IsTool(t) /\ task[t].pc = "awaitConnect"
    /\ clients[task[t].cl] = "handshaking"
    /\ mcpClient' = connectDone(mcpClient)
    /\ ToolRemoteBegin(t, task[t].id, task[t].op, task[t].names, mcpClient',
                       [clients EXCEPT ![task[t].cl] = "ready"])
    /\ UNCHANGED <<now, indexVars, cacheVars, ncalls>>

\* the handshake awaited by the adapter's mcpClient.connect() failed
ToolConnectFailed(t) ==
    /\ IsTool(t) /\ task[t].pc = "awaitConnect"
    /\ clients[task[t].cl] \in {"handshaking", "closed"}
    /\ task' = [task EXCEPT ![t] = Idle]
    /\ clients' = Collect([clients EXCEPT ![task[t].cl] =
                              IF @ = "handshaking" THEN "failed" ELSE @], mcpClient, task')
    /\ Finish(t, task[t].id, task[t].op, "connectFailed",
              ToolCatch(task[t].op, "connect failed"))
    /\ UNCHANGED <<now, indexVars, cacheVars, ncalls, mcpClient>>

\* the awaited callTool resolved with the server's answer; names and appMap
\* record (history) what was asked and the app map the server fetched
ToolRemoteResolved(t, appMap) ==
    /\ IsTool(t) /\ task[t].pc = "awaitRemote"
    /\ clients[task[t].cl] = "ready"
    /\ task' = [task EXCEPT ![t] = Idle]
    /\ clients' = Collect(clients, mcpClient, task')
    /\ Finish(t, task[t].id, task[t].op, "remoteResolved",
              [names |-> task[t].names, appMap |-> appMap] @@
              ToolSuccess(task[t].op,
                          ParseResponse(CallToolHandler(task[t].op, task[t].names, appMap))))
    /\ UNCHANGED <<now, indexVars, cacheVars, ncalls, mcpClient>>

\* the awaited callTool rejected: remote error, or the client is not usable
ToolRemoteRejected(t) ==
    /\ IsTool(t) /\ task[t].pc = "awaitRemote"
    /\ task' = [task EXCEPT ![t] = Idle]
    /\ clients' = Collect(clients, mcpClient, task')
    /\ Finish(t, task[t].id, task[t].op, "remoteRejected",
              ToolCatch(task[t].op, "remote call failed"))
    /\ UNCHANGED <<now, indexVars, cacheVars, ncalls, mcpClient>>

\* ------------------------------------------------ MCPClient called directly
\* mcpClient.connect(), up to its await; max bounds the calls made so far
ConnectCalled(t, max) ==
    /\ Free(t)
    /\ ncalls < max
    /\ ncalls' = ncalls + 1
    /\ UNCHANGED <<now, indexVars, cacheVars>>
    /\ IF mcpClient.isConnected
       THEN /\ Finish(t, ncalls + 1, "connect", "alreadyConnected", Returned("already connected"))
            /\ UNCHANGED <<task, channelVars>>
       ELSE /\ mcpClient' = connectBegin(mcpClient, ncalls + 1)
            /\ task' = [task EXCEPT ![t] = [id |-> ncalls + 1, op |-> "connect",
                                            pc |-> "awaitConnect", user |-> Null,
                                            cl |-> ncalls + 1, names |-> <<>>,
                                            conn |-> 1, req |-> 0, http |-> NoHttp, prev |-> 0]]
            /\ clients' = Collect(MapSet(clients, ncalls + 1, "handshaking"), mcpClient', task')
            /\ UNCHANGED ret

Connect(t) == ConnectCalled(t, MaxOps)

\* the handshake awaited by connect() succeeded
ConnectResolved(t) ==
    /\ task[t].op = "connect" /\ task[t].pc = "awaitConnect"
    /\ clients[task[t].cl] = "handshaking"
    /\ mcpClient' = connectDone(mcpClient)
    /\ task' = [task EXCEPT ![t] = Idle]
    /\ clients' = Collect([clients EXCEPT ![task[t].cl] = "ready"], mcpClient', task')
    /\ Finish(t, task[t].id, "connect", "handshakeResolved", Returned("connected"))
    /\ UNCHANGED <<now, indexVars, cacheVars, ncalls>>

\* the handshake awaited by connect() failed: the error is logged and rethrown
ConnectRejected(t) ==
    /\ task[t].op = "connect" /\ task[t].pc = "awaitConnect"
    /\ clients[task[t].cl] \in {"handshaking", "closed"}
    /\ task' = [task EXCEPT ![t] = Idle]
    /\ clients' = Collect([clients EXCEPT ![task[t].cl] =
                              IF @ = "handshaking" THEN "failed" ELSE @], mcpClient, task')
    /\ Finish(t, task[t].id, "connect", "handshakeRejected", Threw("connect failed"))
    /\ UNCHANGED <<now, indexVars, cacheVars, ncalls, mcpClient>>

\* mcpClient.disconnect(), up to its await; max bounds the calls made so far
DisconnectCalled(t, max) ==
    /\ Free(t)
    /\ ncalls < max
    /\ ncalls' = ncalls + 1
    /\ UNCHANGED <<now, indexVars, cacheVars, channelVars>>
    /\ IF disconnectGuard(mcpClient)
       THEN /\ task' = [task EXCEPT ![t] = [id |-> ncalls + 1, op |-> "disconnect",
                                            pc |-> "awaitClose", user |-> Null,
                                            cl |-> mcpClient.client, names |-> <<>>,
                                            conn |-> 0, req |-> 0, http |-> NoHttp, prev |-> ret.id]]
            /\ UNCHANGED ret
       ELSE /\ Finish(t, ncalls + 1, "disconnect", "notConnected", Returned("nothing to do"))
            /\ UNCHANGED task

Disconnect(t) == DisconnectCalled(t, MaxOps)

\* the close() awaited by disconnect() resolved
CloseResolved(t) ==
    /\ task[t].op = "disconnect" /\ task[t].pc = "awaitClose"
    /\ mcpClient' = disconnectDone(mcpClient)
    /\ task' = [task EXCEPT ![t] = Idle]
    /\ clients' = Collect([clients EXCEPT ![task[t].cl] = "closed"], mcpClient', task')
    /\ Finish(t, task[t].id, "disconnect", "closeResolved", Returned("disconnected"))
    /\ UNCHANGED <<now, indexVars, cacheVars, ncalls>>

\* the close() awaited by disconnect() rejected
CloseRejected(t) ==
    /\ task[t].op = "disconnect" /\ task[t].pc = "awaitClose"
    /\ mcpClient' = disconnectFailed(mcpClient)
    /\ task' = [task EXCEPT ![t] = Idle]
    /\ clients' = Collect(clients, mcpClient', task')
    /\ Finish(t, task[t].id, "disconnect", "closeRejected", Returned("close failed"))
    /\ UNCHANGED <<now, indexVars, cacheVars, ncalls>>

\* the tool server process behind a connected Client exits
ProcessDies(c) ==
    /\ c \in DOMAIN clients
    /\ clients[c] = "ready"
    /\ clients' = [clients EXCEPT ![c] = "dead"]
    /\ UNCHANGED <<now, indexVars, cacheVars, mcpClient, task, ret, ncalls>>

RemoteOps == {"listAvailableComponents", "getComponentProps"}

\* mcpClient.listAvailableComponents() / getComponentProps(names) called
\* directly, up to the awaited callTool
RemoteCall(t, op, names) ==
    /\ Free(t)
    /\ ncalls < MaxOps
    /\ ncalls' = ncalls + 1
    /\ UNCHANGED <<now, indexVars, cacheVars, channelVars>>
    /\ IF callGuard(mcpClient)
       THEN /\ task' = [task EXCEPT ![t] = [id |-> ncalls + 1, op |-> op, pc |-> "awaitRemote",
                                            user |-> Null, cl |-> mcpClient.client,
                                            names |-> names, conn |-> 0, req |-> 1, http |-> NoHttp, prev |-> 0]]
            /\ UNCHANGED ret
       ELSE /\ Finish(t, ncalls + 1, op, "notConnected", Threw("MCP Client not connected"))
            /\ UNCHANGED task

ListAvailableComponents(t) == RemoteCall(t, "listAvailableComponents", <<>>)

GetComponentProps(t, names) == RemoteCall(t, "getComponentProps", names)

\* the awaited callTool resolved: the parsed answer is returned
RemoteResolved(t, appMap) ==
    /\ task[t].op \in RemoteOps /\ task[t].pc = "awaitRemote"
    /\ clients[task[t].cl] = "ready"
    /\ task' = [task EXCEPT ![t] = Idle]
    /\ clients' = Collect(clients, mcpClient, task')
    /\ Finish(t, task[t].id, task[t].op, "remoteResolved",
              Returned(ParseResponse(CallToolHandler(task[t].op, task[t].names, appMap))))
    /\ UNCHANGED <<now, indexVars, cacheVars, ncalls, mcpClient>>

\* the awaited callTool rejected: the error is logged and rethrown
RemoteRejected(t) ==
    /\ task[t].op \in RemoteOps /\ task[t].pc = "awaitRemote"
    /\ task' = [task EXCEPT ![t] = Idle]
    /\ clients' = Collect(clients, mcpClient, task')
    /\ Finish(t, task[t].id, task[t].op, "remoteRejected", Threw("remote call failed"))
    /\ UNCHANGED <<now, indexVars, cacheVars, ncalls, mcpClient>>

NextChannel ==
    \/ \E t \in Tasks : Connect(t)
    \/ \E t \in Tasks : ConnectResolved(t)
    \/ \E t \in Tasks : ConnectRejected(t)
    \/ \E t \in Tasks : Disconnect(t)
    \/ \E t \in Tasks : CloseResolved(t)
    \/ \E t \in Tasks : CloseRejected(t)
    \/ \E t \in Tasks : ListComponentsToolCall(t)
    \/ \E t \in Tasks, input \in Inputs : GetComponentPropsToolCall(t, input)
    \/ \E t \in Tasks : ToolConnected(t)
    \/ \E t \in Tasks : ToolConnectFailed(t)
    \/ \E t \in Tasks, appMap \in AppMaps : ToolRemoteResolved(t, appMap)
    \/ \E t \in Tasks : ToolRemoteRejected(t)
    \/ \E c \in DOMAIN clients : ProcessDies(c)

SpecChannel == Init /\ [][NextChannel]_vars

\* the MCPClient singleton on its own, every method called directly
NextClient ==
    \/ \E t \in Tasks : ConnectCalled(t, MaxConn)
    \/ \E t \in Tasks : ConnectResolved(t)
    \/ \E t \in Tasks : ConnectRejected(t)
    \/ \E t \in Tasks : DisconnectCalled(t, MaxConn)
    \/ \E t \in Tasks : CloseResolved(t)
    \/ \E t \in Tasks : CloseRejected(t)
    \/ \E t \in Tasks : ListAvailableComponents(t)
    \/ \E t \in Tasks, names \in NameSeqs : GetComponentProps(t, names)
    \/ \E t \in Tasks, appMap \in AppMaps : RemoteResolved(t, appMap)
    \/ \E t \in Tasks : RemoteRejected(t)
    \/ \E c \in DOMAIN clients : ProcessDies(c)

SpecClient == Init /\ [][NextClient]_vars

NextTimely ==
    \/ InitializeEngineResolved(0)
    \/ InitializeEngineRejected(0)
    \/ \E t \in Tasks, u \in UserIds : GetChatEngine(t, u)
    \/ \E t \in Tasks : GetChatEngineConnected(t)
    \/ \E t \in Tasks : GetChatEngineConnectFailed(t)
    \/ \E k \in timers : EvictionCheck(k)
    \/ TickOnTime

SpecTimely == Init /\ [][NextTimely]_vars

\* the session cache together with the channel used from outside of it
NextSession ==
    \/ InitializeEngineResolved(0)
    \/ InitializeEngineRejected(0)
    \/ \E t \in Tasks, u \in UserIds : GetChatEngine(t, u)
    \/ \E t \in Tasks : GetChatEngineConnected(t)
    \/ \E t \in Tasks : GetChatEngineConnectFailed(t)
    \/ \E k \in timers : EvictionCheck(k)
    \/ TickOnTime
    \/ \E t \in Tasks : Connect(t)
    \/ \E t \in Tasks : ConnectResolved(t)
    \/ \E t \in Tasks : ConnectRejected(t)
    \/ \E t \in Tasks : Disconnect(t)
    \/ \E t \in Tasks : CloseResolved(t)
    \/ \E t \in Tasks : CloseRejected(t)
    \/ \E c \in DOMAIN clients : ProcessDies(c)

SpecSession == Init /\ [][NextSession]_vars

\* the inputs with at most one name
ShortInputs == {input \in Inputs : Len(input.names) <= 1}

\* what the agents do: getChatEngine builds them, their turns call the adapters
NextAgent ==
    \/ InitializeEngineResolved(0)
    \/ InitializeEngineRejected(0)
    \/ \E t \in Tasks, u \in UserIds : GetChatEngine(t, u)
    \/ \E t \in Tasks : GetChatEngineConnected(t)
    \/ \E t \in Tasks : GetChatEngineConnectFailed(t)
    \/ \E t \in Tasks : ListComponentsToolCall(t)
    \/ \E t \in Tasks, input \in ShortInputs : GetComponentPropsToolCall(t, input)
    \/ \E t \in Tasks : ToolConnected(t)
    \/ \E t \in Tasks : ToolConnectFailed(t)
    \/ \E t \in Tasks, appMap \in AppMaps : ToolRemoteResolved(t, appMap)
    \/ \E t \in Tasks : ToolRemoteRejected(t)
    \/ \E c \in DOMAIN clients : ProcessDies(c)

SpecAgent == Init /\ [][NextAgent]_vars

\* -------------------------------------------------------- request handlers
NL == "\n"
DATA == "data: "

\* the answers of the stubbed agent: an answer is the list of the fragments
\* its stream yields, a fragment a list of characters
Answers ==
    { << <<"a">>, <<"b">> >>,
      << <<"a", NL, "b">> >> }

RECURSIVE Flatten(_)
Flatten(ss) == IF ss = <<>> THEN <<>> ELSE Head(ss) \o Flatten(Tail(ss))

\* response.toString() of the chat that is not streamed: the whole answer
ResponseToString(frags) == Flatten(frags)

\* `data: ${response}\n\n`
Frame(fragment) == <<DATA>> \o fragment \o <<NL, NL>>

\* the lines of a text/event-stream body
RECURSIVE Lines(_, _)
Lines(wire, line) ==
    IF wire = <<>> THEN <<>>
    ELSE IF Head(wire) = NL THEN <<line>> \o Lines(Tail(wire), <<>>)
    ELSE Lines(Tail(wire), Append(line, Head(wire)))

\* the events a text/event-stream reader dispatches: the data lines of an
\* event are joined by NL, a blank line ends the event, an event without data
\* is dropped, a line that is no field is ignored
RECURSIVE Events(_, _, _)
Events(lines, data, has) ==
    IF lines = <<>> THEN <<>>
    ELSE LET l == Head(lines)
         IN IF l = <<>>
            THEN (IF has /\ data # <<>> THEN <<data>> ELSE <<>>)
                 \o Events(Tail(lines), <<>>, FALSE)
            ELSE IF Head(l) = DATA
            THEN Events(Tail(lines), (IF has THEN data \o <<NL>> ELSE data) \o Tail(l), TRUE)
            ELSE Events(Tail(lines), data, has)

\* the frame bodies the caller of /stream-query reads from the bytes written
FrameBodies(wire) == Events(Lines(wire, <<>>), <<>>, FALSE)

HandlerOps == {"/query", "/stream-query"}

\* req.headers["x-user"]: Null when the header is missing or empty
Headers == {Null} \cup UserIds

\* variant: the header is not tested
MissingHeader_never(hdr) == FALSE

\* !userId
MissingHeader(hdr) == hdr = Null

\* the status of res.json(...) and of a stream that was written to
StatusOK == 200

\* variant: errors are answered with the status of a success
ErrorStatus_ok == StatusOK

\* res.status(500)
ErrorStatus == 500

\* the handler of request id is over: status and body of the response, the
\* header it came with, and (history) what h had written and whether it failed
Respond(id, h, hdr, status, body, failed, ended) ==
    ret' = [id |-> id, op |-> h.handler, outcome |-> "responded", user |-> hdr,
            status |-> status, body |-> body, failed |-> failed, ended |-> ended,
            frags |-> h.frags, frames |-> h.sent, wire |-> h.wire, responses |-> 1]

\* app.post(...) handler up to its first await: 400 without the header, else
\* the call of queryIndex / streamQueryIndex, which starts with getChatEngine;
\* for /stream-query the three setHeader calls only stage headers
HandlerCalled(t, op, hdr) ==
    IF MissingHeader(hdr)
    THEN /\ Listening
         /\ Free(t)
         /\ ncalls < MaxCalls
         /\ ncalls' = ncalls + 1
         /\ Respond(ncalls + 1, [NoHttp EXCEPT !.handler = op], hdr, 400,
                    [error |-> "Missing X-User header"], FALSE, TRUE)
         /\ UNCHANGED <<now, indexVars, cacheVars, channelVars, task>>
    ELSE GetChatEngineCalled(t, hdr, [NoHttp EXCEPT !.handler = op])

PostQuery(t, hdr) == HandlerCalled(t, "/query", hdr)

PostStreamQuery(t, hdr) == HandlerCalled(t, "/stream-query", hdr)

\* the awaited chatEngine.chat(...) resolved: /query answers with the whole
\* text, /stream-query starts to iterate over the stream
ChatResolved(t, frags) ==
    /\ task[t].op \in HandlerOps /\ task[t].pc = "awaitChat"
    /\ IF task[t].op = "/query"
       THEN /\ task' = [task EXCEPT ![t] = Idle]
            /\ Respond(task[t].id, [task[t].http EXCEPT !.frags = frags], task[t].user, StatusOK,
                       ResponseToString(frags), FALSE, TRUE)
       ELSE /\ task' = [task EXCEPT ![t].pc = "awaitChunk", ![t].http.frags = frags]
            /\ UNCHANGED ret
    /\ UNCHANGED <<now, indexVars, cacheVars, channelVars, ncalls>>

\* the stream yields its next fragment and the handler writes its frame
StreamChunk(t) ==
    /\ task[t].pc = "awaitChunk"
    /\ task[t].http.sent < Len(task[t].http.frags)
    /\ task' = [task EXCEPT ![t].http.sent = @ + 1,
                            ![t].http.wire = @ \o Frame(task[t].http.frags[task[t].http.sent + 1])]
    /\ UNCHANGED <<now, indexVars, cacheVars, channelVars, ncalls, ret>>

\* the stream is exhausted: res.end()
StreamEnd(t) ==
    /\ task[t].pc = "awaitChunk"
    /\ task[t].http.sent = Len(task[t].http.frags)
    /\ task' = [task EXCEPT ![t] = Idle]
    /\ Respond(task[t].id, task[t].http, task[t].user, StatusOK, task[t].http.wire, FALSE, TRUE)
    /\ UNCHANGED <<now, indexVars, cacheVars, channelVars, ncalls>>

\* the catch block of a handler runs: getChatEngine has thrown, the awaited
\* chatEngine.chat(...) rejects, or reading the next fragment of the stream
\* throws.  It calls res.status(500).json({error}); once a frame has been
\* written the headers are sent and json() throws inside the catch: the
\* response stays open and the rejection of the handler is unhandled, on which
\* the process either goes on or exits
HandlerFailed(t, exits) ==
    /\ task[t].op \in HandlerOps
    /\ \/ task[t].pc \in {"catch", "awaitChat"}
       \/ task[t].pc = "awaitChunk" /\ task[t].http.sent < Len(task[t].http.frags)
    /\ UNCHANGED <<now, queryEngineTool, builds, ncalls, handed, lastAccess>>
    /\ IF task[t].http.sent = 0
       THEN /\ ~exits
            /\ task' = [task EXCEPT ![t] = Idle]
            /\ Respond(task[t].id, task[t].http, task[t].user, ErrorStatus,
                       [error |-> "Error"], TRUE, TRUE)
            /\ UNCHANGED <<startup, chatEngines, lastActivityTimes, timers, channelVars>>
       ELSE /\ Respond(task[t].id, task[t].http, task[t].user, StatusOK, task[t].http.wire,
                       TRUE, FALSE)
            /\ IF exits
               THEN /\ startup' = "crashed"
                    /\ task' = [s \in Tasks |-> Idle]
                    /\ chatEngines' = EmptyMap
                    /\ lastActivityTimes' = EmptyMap
                    /\ timers' = {}
                    /\ mcpClient' = [client |-> Null, transport |-> Null, isConnected |-> FALSE]
                    /\ clients' = EmptyMap
               ELSE /\ task' = [task EXCEPT ![t] = Idle]
                    /\ UNCHANGED <<startup, chatEngines, lastActivityTimes, timers, channelVars>>

NextHttp ==
    \/ InitializeEngineResolved(0)
    \/ InitializeEngineRejected(0)
    \/ \E t \in Tasks, hdr \in Headers : PostQuery(t, hdr)
    \/ \E t \in Tasks, hdr \in Headers : PostStreamQuery(t, hdr)
    \/ \E t \in Tasks : GetChatEngineConnected(t)
    \/ \E t \in Tasks : GetChatEngineConnectFailed(t)
    \/ \E t \in Tasks, frags \in Answers : ChatResolved(t, frags)
    \/ \E t \in Tasks : StreamChunk(t)
    \/ \E t \in Tasks : StreamEnd(t)
    \/ \E t \in Tasks, exits \in BOOLEAN : HandlerFailed(t, exits)

SpecHttp == Init /\ [][NextHttp]_vars

\* -------------------------------------------------------- tool server process
ListServerTool == "list-available-druids-components"
PropsServerTool == "get-druids-component-props"
ServerTools == {ListServerTool, PropsServerTool}

\* request.params.arguments of a call: names missing, or the array of strings
\* the input schema declares
Arguments == {input \in Inputs : input.kind # "notArray"}

\* !names || names.length === 0
ReturnsEarly(input) == input.kind = "missing" \/ Len(input.names) = 0

\* the CallToolRequestSchema handler of the server up to its first await: an
\* unknown tool throws, getDruidsComponentProps without names returns [] at
\* once, every other call awaits fetch(DRUIDS_APP_MAP_PATH); req counts the
\* fetches
CallToolRequest(t, tool, input) ==
    /\ Free(t)
    /\ ncalls < MaxOps
    /\ ncalls' = ncalls + 1
    /\ UNCHANGED <<now, indexVars, cacheVars, channelVars>>
    /\ IF tool \notin ServerTools
       THEN /\ Finish(t, ncalls + 1, tool, "toolNotFound", Threw("Tool not found"))
            /\ UNCHANGED task
       ELSE IF tool = PropsServerTool /\ ReturnsEarly(input)
       THEN /\ Finish(t, ncalls + 1, tool, "noNames",
                      [names |-> input.names, appMap |-> <<>>, result |-> <<>>] @@
                      Returned([type |-> "text", text |-> JSONstringify(<<>>)]))
            /\ UNCHANGED task
       ELSE /\ task' = [task EXCEPT ![t] = [id |-> ncalls + 1, op |-> tool, pc |-> "awaitFetch",
                                            user |-> Null, cl |-> Null, names |-> input.names,
                                            conn |-> 0, req |-> 1, http |-> NoHttp, prev |-> 0]]
            /\ UNCHANGED ret

\* the awaited fetch and response.json() resolved with the app map: the tool
\* function computes its result and the handler returns it as text; names,
\* appMap and result record (history) the call of the tool function
FetchResolved(t, appMap) ==
    /\ task[t].op \in ServerTools /\ task[t].pc = "awaitFetch"
    /\ task' = [task EXCEPT ![t] = Idle]
    /\ Finish(t, task[t].id, task[t].op, "fetchResolved",
              [names |-> task[t].names, appMap |-> appMap,
               result |-> ServerResult(task[t].op, task[t].names, appMap)] @@
              Returned(CallToolHandler(task[t].op, task[t].names, appMap)))
    /\ UNCHANGED <<now, indexVars, cacheVars, channelVars, ncalls>>

\* the awaited fetch or response.json() rejected: the handler throws
FetchRejected(t) ==
    /\ task[t].op \in ServerTools /\ task[t].pc = "awaitFetch"
    /\ task' = [task EXCEPT ![t] = Idle]
    /\ Finish(t, task[t].id, task[t].op, "fetchRejected", Threw("fetch failed"))
    /\ UNCHANGED <<now, indexVars, cacheVars, channelVars, ncalls>>

NextServer ==
    \/ \E t \in Tasks, tool \in ServerTools \cup {"other"}, input \in Arguments :
          CallToolRequest(t, tool, input)
    \/ \E t \in Tasks, appMap \in AppMaps : FetchResolved(t, appMap)
    \/ \E t \in Tasks : FetchRejected(t)

SpecServer == Init /\ [][NextServer]_vars

\* ============================================================ properties
Returns(op) == ret' # ret /\ ret'.op = op

\* C1: every getChatEngine call for one session id returns the same agent
\* until the session is evicted: at most one agent is handed out per id.
C1_OneAgentPerSession ==
    \A u \in UserIds : Cardinality(handed[u]) <= 1

\* C2: a session last accessed at time t is in the cache at every time before
\* t + IDLE_MS and is out of the cache at every time from t + IDLE_MS on.
C2_IdleEviction ==
    \A u \in UserIds :
        lastAccess[u] # NoAccess =>
            ((u \in DOMAIN chatEngines) <=> (now < lastAccess[u].at + IDLE_MS))

RecentlyActive == {u \in UserIds : /\ lastAccess[u] # NoAccess
                                   /\ now - lastAccess[u].at < IDLE_MS + CHECK_MS}

\* C3: the number of entries of chatEngines and of lastActivityTimes is at most
\* the number of sessions accessed within the last IDLE_MS + CHECK_MS.
C3_BoundedByActive ==
    /\ Cardinality(DOMAIN chatEngines) <= Cardinality(RecentlyActive)
    /\ Cardinality(DOMAIN lastActivityTimes) <= Cardinality(RecentlyActive)

\* C4: a session leaves the cache only in a step of an eviction check that is
\* due and that sees now - lastActivity >= IDLE_MS, the last access being at
\* least IDLE_MS ago; so a session accessed less than IDLE_MS ago is in the
\* cache, and a check that runs when it is due and was scheduled before a later
\* access leaves the session in the cache.
C4_NoPrematureEviction ==
    /\ [](\A u \in UserIds :
            (lastAccess[u] # NoAccess /\ now - lastAccess[u].at < IDLE_MS)
                => u \in DOMAIN chatEngines)
    /\ [][\A u \in UserIds :
            /\ (u \in DOMAIN chatEngines /\ u \notin DOMAIN chatEngines') =>
                  /\ \E k \in timers \ timers' : k.userId = u /\ k.due <= now
                  /\ now - lastActivityTimes[u] >= IDLE_MS
                  /\ now - lastAccess[u].at >= IDLE_MS
            /\ \A k \in timers \ timers' :
                  (k.userId = u /\ k.due = now /\ lastAccess[u].call # k.id
                      /\ u \in DOMAIN chatEngines)
                  => u \in DOMAIN chatEngines']_vars

\* C4 witness: a check has removed a session that was idle for IDLE_MS
C4_Witness ==
    \E u \in UserIds : /\ lastAccess[u] # NoAccess
                       /\ u \notin DOMAIN chatEngines
                       /\ now - lastAccess[u].at >= IDLE_MS

\* C5: every getChatEngine call that returns, hit or miss, leaves
\* lastActivityTimes of its session at the current time and adds exactly one
\* timer for that session, due CHECK_MS later and still pending when the call
\* returns the cached agent; no timer runs before it is due.
C5_RefreshAndSchedule ==
    [][/\ (Returns("getChatEngine") /\ ret'.outcome = "returned") =>
                LET u == ret'.user
                IN /\ u \in DOMAIN chatEngines'
                   /\ ret'.agent = chatEngines'[u].id
                   /\ lastActivityTimes'[u] = now
                   /\ timers \subseteq timers'
                   /\ Cardinality(timers' \ timers) = 1
                   /\ \A k \in timers' \ timers : k.userId = u /\ k.due >= now + CHECK_MS
       /\ \A k \in timers \ timers' : k.due <= now]_vars

\* C5 witness: a call that hit the cache has returned and its timer is pending
C5_Witness ==
    /\ ret.op = "getChatEngine"
    /\ ret.outcome = "returned"
    /\ ret.agent # ret.id
    /\ \E k \in timers : k.id = ret.id /\ k.due > now

ToolOps == {"listTool", "propsTool"}

\* C6: a call of either adapter always returns an envelope and never throws;
\* the envelope has success = FALSE with error and message on every failure
\* path, and success = TRUE exactly when the remote call resolved.
C6_AdaptersNeverThrow ==
    ret.op \in ToolOps =>
        /\ ret.outcome = "returned"
        /\ ret.value.success \in BOOLEAN
        /\ ret.value.success = (ret.via = "remoteResolved")
        /\ ~ret.value.success => {"error", "message"} \subseteq DOMAIN ret.value

\* C6 witness: an adapter call whose connect failed has returned its envelope
C6_Witness ==
    /\ ret.op \in ToolOps
    /\ ret.via = "connectFailed"
    /\ ret.outcome = "returned"
    /\ ~ret.value.success

\* C7: an agent built while the channel could not connect has the retrieval
\* tool as its only tool.
C7_RetrievalOnlyWhenDegraded ==
    \A u \in DOMAIN chatEngines :
        ~chatEngines[u].channelReady => chatEngines[u].tools = {RetrievalTool}

\* C8: getChatEngine throws only when the index is unavailable, never after a
\* failed connect, and a call that throws leaves chatEngines, lastActivityTimes
\* and the timers as they were.
C8_ThrowsOnlyForIndex ==
    [][/\ (Returns("getChatEngine") /\ ret'.outcome = "threw") =>
                /\ ret'.error = "index"
                /\ queryEngineTool' = Null
                /\ UNCHANGED <<chatEngines, lastActivityTimes, timers>>
       /\ \A t \in Tasks :
            (task[t].op = "getChatEngine" /\ task[t].pc = "awaitConnect"
                /\ task'[t].op = "none") =>
                /\ ret'.id = task[t].id
                /\ ret'.outcome = "returned"
                /\ ret'.user \in DOMAIN chatEngines']_vars

\* C8 witness: a call whose connect failed has returned the agent it built
C8_Witness ==
    \E u \in DOMAIN chatEngines :
        /\ ret.op = "getChatEngine"
        /\ ret.outcome = "returned"
        /\ ret.agent = chatEngines[u].id
        /\ ~chatEngines[u].channelReady

\* C9: when a call of disconnect() completes, isReady() is false; and when the
\* call went through the teardown (close() resolved or raised), client and
\* transport are null.
C9_DisconnectClears ==
    [][Returns("disconnect") =>
          /\ ~isReady(mcpClient')
          /\ ret'.via # "notConnected" =>
                mcpClient'.client = Null /\ mcpClient'.transport = Null]_vars

\* C10: after a channel failure (the handshake of the held client failed, or
\* its server process died) the channel is not in the connected state.
C10_FailureLeavesDisconnected ==
    (mcpClient.client # Null /\ clients[mcpClient.client] \in {"failed", "dead"})
        => ~isReady(mcpClient)

\* C11: connect() is idempotent: a call made while the channel is connected
\* changes nothing of the channel (no new transport, client or process); a call
\* made while it is not connected marks it connected when its handshake
\* resolves, and throws and leaves isReady() false when its handshake fails.
C11_ConnectIdempotent ==
    [][Returns("connect") =>
          /\ ret'.via = "alreadyConnected" =>
                /\ UNCHANGED <<mcpClient, clients>>
                /\ isReady(mcpClient')
          /\ ret'.via = "handshakeResolved" => isReady(mcpClient')
          /\ ret'.via = "handshakeRejected" =>
                /\ ret'.outcome = "threw"
                /\ ~isReady(mcpClient')]_vars

\* the step starts an invocation of op
Began(op) ==
    /\ ncalls' = ncalls + 1
    /\ \/ ret' # ret /\ ret'.id = ncalls' /\ ret'.op = op
       \/ \E t \in Tasks : task'[t].id = ncalls' /\ task'[t].op = op

\* C12: listAvailableComponents / getComponentProps called while isReady() is
\* false throws the not-connected error in the same step, sends no request and
\* leaves the channel as it was; when the remote call is rejected the
\* operation throws that error having sent exactly one request, and ends.
C12_RemoteOpErrors ==
    [][\A op \in RemoteOps :
          /\ (Began(op) /\ ~isReady(mcpClient)) =>
                /\ Returns(op)
                /\ ret'.outcome = "threw"
                /\ ret'.error = "MCP Client not connected"
                /\ ret'.requests = 0
                /\ UNCHANGED <<mcpClient, clients, task>>
          /\ (Returns(op) /\ ret'.via = "remoteRejected") =>
                /\ ret'.outcome = "threw"
                /\ ret'.error = "remote call failed"
                /\ ret'.requests = 1
                /\ \A t \in Tasks : task'[t].id # ret'.id]_vars

\* C12 witness: a remote operation called directly on a connected channel has
\* thrown the error of the remote call
C12_Witness ==
    /\ ret.op \in RemoteOps
    /\ ret.via = "remoteRejected"
    /\ ret.outcome = "threw"
    /\ isReady(mcpClient)

\* the app map has an item labelled name
Exists(name, appMap) == \E i \in 1..Len(appMap) : appMap[i].label = name

\* C13: when the remote call of GetComponentPropsTool resolves, the envelope
\* has success = TRUE, every requested name that exists in the app map has an
\* entry in components and is not in notFound, every requested name that does
\* not exist is in notFound and has no entry in components, and nothing else
\* is in either list.
C13_BatchPartition ==
    (ret.op = "propsTool" /\ ret.via = "remoteResolved") =>
        LET v == ret.value
            names == ret.names
            inComponents(n) == \E j \in 1..Len(v.components) : v.components[j].name = n
            inNotFound(n) == \E j \in 1..Len(v.notFound) : v.notFound[j] = n
        IN /\ v.success
           /\ \A i \in 1..Len(names) :
                 /\ inComponents(names[i]) <=> Exists(names[i], ret.appMap)
                 /\ inNotFound(names[i]) <=> ~Exists(names[i], ret.appMap)
           /\ \A n \in Names :
                 (inComponents(n) \/ inNotFound(n)) => \E i \in 1..Len(names) : names[i] = n

\* the step starts the handler op for a request that carries no X-User header
BeganWithoutUser(op) ==
    /\ ncalls' = ncalls + 1
    /\ \/ ret' # ret /\ ret'.id = ncalls' /\ ret'.op = op /\ ret'.user = Null
       \/ \E t \in Tasks : /\ task'[t].id = ncalls'
                           /\ task'[t].http.handler = op
                           /\ task'[t].user = Null

\* C14: a POST /query or POST /stream-query without the X-User header is
\* answered with status 400 in the step it arrives, and that step calls neither
\* queryIndex / streamQueryIndex nor getChatEngine: no invocation is started,
\* chatEngines, lastActivityTimes and the timers are as before, and so are the
\* channel and the index.
C14_MissingHeader400 ==
    [][\A op \in HandlerOps :
          BeganWithoutUser(op) =>
              /\ Returns(op)
              /\ ret'.status = 400
              /\ ret'.frames = 0
              /\ UNCHANGED <<task, chatEngines, lastActivityTimes, timers,
                             mcpClient, clients, queryEngineTool, builds>>]_vars

\* C14 witness: a request without the header has been answered with 400 while
\* a session exists
C14_Witness ==
    /\ ret.op \in HandlerOps
    /\ ret.user = Null
    /\ ret.status = 400
    /\ chatEngines # EmptyMap

\* C15: POST /stream-query writes one frame per fragment of the agent's
\* stream, in the order of the stream and before it asks for the next
\* fragment; when it closes the stream it has written a frame for every
\* fragment and at least one frame, and the frame bodies the caller reads,
\* concatenated, are the answer POST /query gives for the same answer of the
\* stubbed agent.
C15_StreamFrames ==
    /\ [][\A t \in Tasks :
            (task[t].op = "/stream-query" /\ task'[t].op = "/stream-query"
                /\ task'[t].http.sent # task[t].http.sent) =>
                /\ task'[t].http.sent = task[t].http.sent + 1
                /\ task'[t].http.frags = task[t].http.frags
                /\ task'[t].http.wire =
                      task[t].http.wire \o Frame(task[t].http.frags[task'[t].http.sent])]_vars
    /\ []((ret.op = "/stream-query" /\ ret.status = StatusOK /\ ret.ended) =>
            /\ ret.frames = Len(ret.frags)
            /\ ret.frames >= 1
            /\ Flatten(FrameBodies(ret.wire)) = ResponseToString(ret.frags))

\* C16: when the handler of a request fails before any frame has been written
\* (always so for POST /query) the request is answered with status 500 and an
\* error body and is over: nothing of it runs again; and every request that is
\* answered is answered once, by the step that ends its handler.
C16_FailureIs500 ==
    [][\A op \in HandlerOps :
          Returns(op) =>
              /\ ret'.responses = 1
              /\ \A t \in Tasks : task'[t].id # ret'.id
              /\ \/ ret'.id = ncalls' /\ ncalls' = ncalls + 1
                 \/ \E t \in Tasks : task[t].id = ret'.id /\ task[t].http.handler = op
              /\ (ret'.failed /\ ret'.frames = 0) =>
                    /\ ret'.status = 500
                    /\ "error" \in DOMAIN ret'.body
                    /\ ret'.ended
              /\ (op = "/query" /\ ret'.failed) => ret'.frames = 0]_vars

\* C16 witness: a POST /stream-query whose stream failed before the first
\* frame has been answered with 500
C16_Witness ==
    /\ ret.op = "/stream-query"
    /\ ret.failed
    /\ ret.frags # <<>>
    /\ ret.frames = 0
    /\ ret.status = 500

C18_ToolsFixedAtCreation ==
    [][/\ \A u \in DOMAIN chatEngines \cap DOMAIN chatEngines' :
              chatEngines'[u].id = chatEngines[u].id => chatEngines'[u] = chatEngines[u]
       /\ (Returns("getChatEngine") /\ ret'.outcome = "returned" /\ ret'.agent # ret'.id) =>
              /\ ret'.connects = 0
              /\ UNCHANGED <<mcpClient, clients, chatEngines>>]_vars

\* C18 witness: an agent built while the channel was connected is still in the
\* cache with its three tools after the channel has been disconnected
C18_Witness ==
    \E u \in DOMAIN chatEngines :
        /\ chatEngines[u].channelReady
        /\ chatEngines[u].tools = {RetrievalTool} \cup CreateMCPTools
        /\ ~isReady(mcpClient)
        /\ ret.op = "disconnect"

\* C19: a call of disconnect() always returns and never throws; a call made
\* while the channel is not connected changes nothing of the channel; and the
\* second of two calls made in a row leaves the channel as the first left it.
C19_DisconnectIdempotent ==
    [][Returns("disconnect") =>
          /\ ret'.outcome = "returned"
          /\ ret'.via = "notConnected" => UNCHANGED <<mcpClient, clients>>
          /\ \A t \in Tasks :
                (task[t].id = ret'.id /\ ret.op = "disconnect" /\ task[t].prev = ret.id
                    /\ ret'.id = ret.id + 1 /\ ncalls = ret'.id) =>
                    mcpClient' = mcpClient]_vars

\* the ops that may call connect() on their way
ConnectingOps == ToolOps \cup {"getChatEngine"}

\* C20: an invocation of an adapter or of getChatEngine calls connect() at
\* most once, and on its first step exactly when isReady() is false at entry
\* (for getChatEngine: on a miss); an adapter invocation sends at most one
\* remote request; the counts never change once made, and an invocation whose
\* connect or remote call failed ends, or goes on, without a further attempt.
C20_NoRetries ==
    /\ [](/\ \A t \in Tasks : task[t].conn <= 1 /\ task[t].req <= 1
          /\ ret.op \in ConnectingOps => ret.connects <= 1
          /\ ret.op \in ToolOps =>
                /\ ret.requests <= 1
                /\ ret.via = "connectFailed" => (ret.connects = 1 /\ ret.requests = 0)
                /\ ret.via = "remoteRejected" => ret.requests = 1)
    /\ [][\A t \in Tasks :
            /\ (task'[t].id = ncalls' /\ ncalls' = ncalls + 1 /\ task'[t].op \in ConnectingOps) =>
                  /\ task'[t].conn = 1 <=> (task'[t].pc = "awaitConnect")
                  /\ task'[t].pc = "awaitConnect" => ~isReady(mcpClient)
                  /\ (task'[t].op \in ToolOps /\ ~isReady(mcpClient)) =>
                        task'[t].pc = "awaitConnect"
            /\ (task[t].op \in ConnectingOps /\ task'[t].id = task[t].id) =>
                  /\ task'[t].conn = task[t].conn
                  /\ task'[t].req \in {task[t].req, task[t].req + 1}
            /\ (task[t].op \in ConnectingOps /\ task[t].pc = "awaitConnect"
                   /\ task'[t].id # task[t].id) =>
                  /\ ret'.id = task[t].id
                  /\ ret'.connects = 1]_vars

\* C20 witness: an adapter invocation that connected and whose remote call was
\* then rejected has ended after one connect() and one request
C20_Witness ==
    /\ ret.op \in ToolOps
    /\ ret.via = "remoteRejected"
    /\ ret.connects = 1
    /\ ret.requests = 1

\* C21: getDruidsComponentProps(names) returns, for a non-empty list of names,
\* after one fetch of the app map, a list as long as names whose i-th entry
\* carries the i-th name and is marked notFound exactly when no item of the
\* app map has that name as its label; without names it returns the empty list
\* and has not fetched the app map.
C21_PropsInOrder ==
    (ret.op = PropsServerTool /\ ret.outcome = "returned") =>
        IF ret.names # <<>>
        THEN /\ ret.requests = 1
             /\ Len(ret.result) = Len(ret.names)
             /\ \A i \in 1..Len(ret.names) :
                   /\ ret.result[i].name = ret.names[i]
                   /\ IsNotFound(ret.result[i]) <=> ~Exists(ret.names[i], ret.appMap)
        ELSE /\ ret.requests = 0
             /\ ret.result = <<>>

\* C22: in every state between two steps the session cache's two maps have the
\* same key set: a session id has an agent in chatEngines exactly when it has
\* a timestamp in lastActivityTimes; and a step that adds or removes a key of
\* one map adds or removes it in the other.
C22_SameKeys ==
    /\ [](DOMAIN chatEngines = DOMAIN lastActivityTimes)
    /\ [][\A u \in UserIds :
            (u \in DOMAIN chatEngines' <=> u \in DOMAIN chatEngines)
                <=> (u \in DOMAIN lastActivityTimes' <=> u \in DOMAIN lastActivityTimes)]_vars

\* C22 witness: one session has been evicted by its check, while another, whose
\* agent was built after a failed connect, is in both maps
C22_Witness ==
    \E u, v \in UserIds :
        /\ lastAccess[u] # NoAccess
        /\ u \notin DOMAIN chatEngines
        /\ u \notin DOMAIN lastActivityTimes
        /\ v \in DOMAIN chatEngines
        /\ v \in DOMAIN lastActivityTimes
        /\ ~chatEngines[v].channelReady

\* C23: whenever isReady() is true, the channel holds a client whose own
\* handshake has completed and that has not been closed, whatever the
\* interleaving of connect() calls, disconnect() calls and handshake outcomes.
C23_ReadyMeansHandshaken ==
    isReady(mcpClient) =>
        /\ mcpClient.client # Null
        /\ mcpClient.client \in DOMAIN clients
        /\ clients[mcpClient.client] \in {"ready", "dead"}

\* C24: GetComponentPropsTool.call with names missing, not an array or empty
\* returns the success = FALSE envelope in the step it is called, having made
\* no connect() call and sent no remote request, and leaves the channel and
\* every running invocation as they were; only a call with a non-empty array
\* of names goes on to the channel.
C24_InvalidInputNoEffect ==
    /\ [](\A t \in Tasks : task[t].op = "propsTool" => task[t].names # <<>>)
    /\ [][(Returns("propsTool") /\ ret'.via = "invalidInput") =>
              /\ InvalidNames(ret'.input)
              /\ ret'.id = ncalls' /\ ncalls' = ncalls + 1
              /\ ret'.outcome = "returned"
              /\ ret'.value.success = FALSE
              /\ {"error", "message"} \subseteq DOMAIN ret'.value
              /\ ret'.connects = 0
              /\ ret'.requests = 0
              /\ UNCHANGED <<mcpClient, clients, task>>]_vars

\* C24 witness: a call whose names is not an array has returned its envelope
\* while another call is in the middle of connect()
C24_Witness ==
    /\ ret.op = "propsTool"
    /\ ret.via = "invalidInput"
    /\ ret.input.kind = "notArray"
    /\ ~isReady(mcpClient)
    /\ \E t \in Tasks : task[t].pc = "awaitConnect" /\ mcpClient.client = task[t].cl

TypeOK ==
    /\ now \in StartTime..MaxTime
    /\ startup \in {"building", "listening", "crashed"}
    /\ DOMAIN chatEngines \subseteq UserIds
    /\ DOMAIN lastActivityTimes \subseteq UserIds
    /\ ncalls \in 0..(MaxCalls + MaxOps + MaxConn)
====
